---- MODULE Spec2Model ----
(***************************************************************************)
(* The crawl engine of web_scraper_v2: Scraper (scraper.py) and its        *)
(* subclass DocScraper (doc_scraper.py).  The recursion of scrape() is an   *)
(* explicit stack of frames; the web (pages, robots.txt files) is the       *)
(* environment, decided the first time the crawl looks at it and fixed      *)
(* from then on.                                                            *)
(***************************************************************************)
EXTENDS Integers, Sequences, FiniteSets, TLC

\* ------------------------------------------------------------------ bounds
MaxOut == 2         \* anchors per page
MaxLinksCfg == 3    \* max_links is drawn from 0..MaxLinksCfg
MaxDepthCfg == 2    \* max_depth is drawn from 0..MaxDepthCfg
MaxRate == 2        \* rate_limit is drawn from 0..MaxRate
MaxSaves == 2       \* save_text_content calls in a row
MaxLines == 2       \* lines of text on a page
MaxTags == 2        \* elements of a page
MaxSegs == 2        \* segments of a path
MaxThreads == 3     \* worker threads the GUI starts
MaxProgress == 1    \* progress messages of one crawl

\* the URLs of the modelled webs; the general crawl uses the first three
Urls == {1, 2, 3, 4}
CoreUrls == {1, 2, 3}
BadUrl == 0         \* a string validators.url rejects
Unknown == "unknown"
\* the anchors of a page nobody has parsed yet
Unparsed == <<BadUrl>>

\* time.time() when the engine is constructed: far beyond any rate_limit
Epoch == MaxRate + 1

\* ------------------------------------------------------------- pure helpers
\* urlparse(url).netloc
Host(u) == IF u = 3 THEN "b.example" ELSE "a.example"
Hosts == {Host(u) : u \in Urls}

is_valid_url(u) == u \in Urls

is_doc_site(u) == u % 2 = 0

Range(s) == {s[i] : i \in DOMAIN s}

RECURSIVE Dedup(_)
Dedup(s) ==
    IF s = <<>> THEN <<>>
    ELSE LET r == Dedup(SubSeq(s, 1, Len(s) - 1))
             x == s[Len(s)]
         IN IF x \in Range(r) THEN r ELSE Append(r, x)

RECURSIVE Filter(_, _)
Filter(s, keep) ==
    IF s = <<>> THEN <<>>
    ELSE IF s[1] \in keep THEN <<s[1]>> \o Filter(Tail(s), keep)
    ELSE Filter(Tail(s), keep)

\* an extraction that forgets the domain filter
extract_links_any_domain(u, anchors, same_domain) ==
    Dedup(Filter(anchors, {l \in Urls : is_valid_url(l)}))

\* Scraper.extract_links over the anchors of a page
extract_links(u, anchors, same_domain) ==
    Dedup(Filter(anchors,
        {l \in Urls : is_valid_url(l) /\ (same_domain => Host(l) = Host(u))}))

\* the anchor lists a page can carry: up to n distinct anchors out of U
RECURSIVE AnchorLists(_, _)
AnchorLists(U, n) ==
    IF n = 0 THEN {<<>>}
    ELSE LET S == AnchorLists(U, n - 1)
         IN S \cup UNION {{Append(s, x) : x \in U \ Range(s)} :
                              s \in {t \in S : Len(t) = n - 1}}

GetOutcomes == {"ok", "empty", "http_error", "transport_error"}
RobotsOutcomes == {"200", "401_403", "404", "5xx", "transport_error"}
ParserStates == {"parsed", "allow_all", "disallow_all", "unread"}
Absent == "absent"

VARIABLES
    \* configuration of the engine and of the crawl
    kind, max_links, rate_limit, respect_robots, max_depth, filter_same_domain,
    start_url,
    \* engine state (Scraper.__init__, DocScraper.__init__)
    visited_urls, all_links, text_content, page_structures, robot_parsers,
    last_request_time, success_count, failure_count,
    \* control
    phase, stack, crawls,
    \* environment
    env, now, page_status, page_anchors, robots_txt, disallowed,
    \* observers
    fetch_log, robots_reads, prev_visited, progress_calls,
    \* the host application: the stop flag of the GUI, the report file and
    \* how many times it was written since the engine last did anything
    stop_requested, output_file, saved,
    \* one application of a parsing function: its arguments and its result
    call, ret,
    \* the window of the GUI: the Scrape and Stop buttons, the message queue
    \* between the worker threads and the main thread, and the worker threads
    \* started so far
    buttons, queue, threads

config == <<kind, max_links, rate_limit, respect_robots, max_depth,
            filter_same_domain>>
engine == <<visited_urls, all_links, text_content, page_structures>>
counters == <<success_count, failure_count>>
fetchvars == <<robot_parsers, last_request_time, success_count, failure_count,
               now, page_status, robots_txt, disallowed, fetch_log,
               robots_reads>>
vars == <<kind, max_links, rate_limit, respect_robots, max_depth,
          filter_same_domain, start_url, visited_urls, all_links, text_content,
          page_structures, robot_parsers, last_request_time, success_count,
          failure_count, phase, stack, crawls, env, now, page_status,
          page_anchors, robots_txt, disallowed, fetch_log, robots_reads,
          prev_visited, progress_calls, stop_requested, output_file, saved,
          call, ret, buttons, queue, threads>>

\* what is outside the crawl: the parsing function under study and the window
parsing == <<call, ret>>
window == <<buttons, queue, threads>>

\* a step of the engine is no step of the host application: the stop flag
\* and the report file stay as they are
HostIdle == /\ saved' = 0
            /\ UNCHANGED <<stop_requested, output_file, parsing, window>>

\* progress_callback(n, self.max_links), called about the URL u; rec tells
\* whether a page record of u exists when it is called
progress_callback(n, u, rec) ==
    progress_calls' = Append(progress_calls,
        [crawl |-> crawls, url |-> u, n |-> n, max |-> max_links,
         visited |-> Cardinality(visited_urls), recorded |-> rec])

\* ---------------------------------------------------------------- Init
\* the report file before save_text_content has written it
NoFile == [banner |-> -1, visited |-> 0, success |-> 0, failure |-> 0,
           extracted |-> 0, body |-> <<>>]

Frame(u, d) == [url |-> u, depth |-> d, pc |-> "enter", html |-> "none",
                links |-> <<>>, i |-> 1]

\* Scraper.__init__ / DocScraper.__init__, for an environment E and a set of
\* configurations
InitEngine(E, kinds, limits, rates, robots, depths, filters) ==
    /\ env = E
    /\ kind \in kinds
    /\ max_links \in limits
    /\ rate_limit \in rates
    /\ respect_robots \in robots
    /\ max_depth \in depths
    /\ filter_same_domain \in filters
    /\ start_url = BadUrl
    /\ visited_urls = {}
    /\ all_links = <<>>
    /\ text_content = <<>>
    /\ page_structures = <<>>
    /\ robot_parsers = [o \in Hosts |-> Absent]
    /\ last_request_time = 0
    /\ success_count = 0
    /\ failure_count = 0
    /\ phase = "idle"
    /\ stack = <<>>
    /\ crawls = 0
    /\ now = Epoch
    /\ page_status = [u \in Urls |-> Unknown]
    /\ page_anchors = [u \in Urls |-> Unparsed]
    /\ robots_txt = [o \in Hosts |-> Unknown]
    /\ disallowed = [u \in Urls |-> Unknown]
    /\ fetch_log = <<>>
    /\ robots_reads = [o \in Hosts |-> 0]
    /\ prev_visited = {}
    /\ progress_calls = <<>>
    /\ stop_requested = FALSE
    /\ output_file = NoFile
    /\ saved = 0

\* no parsing function is being applied
NoCall == [fn |-> "none"]
NoRet == [done |-> FALSE]

\* ScraperGUI.__init__ (main.py:47-73): the Scrape button is enabled, the
\* Stop button is not, the queue is empty, no worker thread was started
InitWindow ==
    /\ buttons = [scrape |-> "normal", stop |-> "disabled"]
    /\ queue = <<>>
    /\ threads = <<>>

\* an engine on its own: no parsing function under study, an idle window
InitWith(E, kinds, limits, rates, robots, depths, filters) ==
    /\ InitEngine(E, kinds, limits, rates, robots, depths, filters)
    /\ call = NoCall
    /\ ret = NoRet
    /\ InitWindow

\* the environment of the general crawl: every GET and robots.txt outcome,
\* every anchor list, GETs that take no time
EnvAll == [outcomes |-> GetOutcomes,
           robots |-> {"200", "401_403", "transport_error"},
           anchors |-> AnchorLists(CoreUrls, MaxOut), latencies |-> {0},
           seeds |-> {1, BadUrl}, crawls |-> 1]

Init == InitWith(EnvAll, {"Scraper", "DocScraper"}, 0..MaxLinksCfg, {1},
                 BOOLEAN, 0..MaxDepthCfg, {FALSE})

\* ------------------------------------------------------------ fetch_page
\* RobotFileParser.read as called at scraper.py:107: the parser state left by
\* a retrieval outcome, "raised" when urlopen raises past read()
ParserAfterRead(rs) ==
    CASE rs = "200" -> "parsed"
      [] rs = "401_403" -> "disallow_all"
      [] rs = "404" -> "allow_all"
      [] rs = "5xx" -> "unread"
      [] OTHER -> "raised"

\* RobotFileParser.can_fetch as called at scraper.py:131
ParserAllows(parser, dis) ==
    CASE parser = "disallow_all" -> FALSE
      [] parser = "allow_all" -> TRUE
      [] parser = "unread" -> FALSE
      [] OTHER -> dis = "no"

\* a rate limiter that never sleeps
SleepForNothing(elapsed, limit) == 0

\* Scraper._rate_limit: the seconds slept
SleepFor(elapsed, limit) == IF elapsed < limit THEN limit - elapsed ELSE 0

Succeeded(status) == status \in {"ok", "empty"}

\* a denial that is logged but not counted
FailureAfterDeniedSilent(fc) == fc

\* a GET whose except clause counts HTTP error statuses only
FailureAfterGetHttpOnly(status, fc) ==
    IF status = "http_error" THEN fc + 1 ELSE fc

\* the counters of fetch_page: a robots denial, and the two ends of the GET
FailureAfterDenied(fc) == fc + 1
SuccessAfterGet(status, sc) == IF Succeeded(status) THEN sc + 1 ELSE sc
FailureAfterGet(status, fc) == IF Succeeded(status) THEN fc ELSE fc + 1

HtmlOf(status) ==
    CASE status = "ok" -> "body"
      [] status = "empty" -> "empty"
      [] OTHER -> "none"

\* whether can_fetch goes to the network for the robots.txt of origin o
NeedsRobotsRead(o) == respect_robots /\ robot_parsers[o] = Absent

\* Scraper.fetch_page(u), called at depth d, returning html
FetchPage(u, d, html) ==
    LET o == Host(u)
        reads == NeedsRobotsRead(o)
    IN
    \E rs \in (IF reads /\ robots_txt[o] = Unknown THEN env.robots
               ELSE {robots_txt[o]}) :
      LET parser == IF ~respect_robots THEN "raised"
                    ELSE IF reads THEN ParserAfterRead(rs)
                    ELSE robot_parsers[o]
          asks == respect_robots /\ parser = "parsed"
      IN
      \E dis \in (IF asks /\ disallowed[u] = Unknown THEN {"yes", "no"}
                  ELSE {disallowed[u]}) :
        LET allowed == \/ ~respect_robots
                       \/ parser = "raised"
                       \/ ParserAllows(parser, dis)
        IN
        \E status \in (IF allowed /\ page_status[u] = Unknown
                       THEN env.outcomes
                       ELSE {page_status[u]}),
           lat \in (IF allowed THEN env.latencies ELSE {0}) :
          LET slept == SleepFor(now - last_request_time, rate_limit)
              t == now + slept
          IN
          /\ robots_txt' = [robots_txt EXCEPT ![o] = rs]
          /\ robots_reads' = IF reads
                             THEN [robots_reads EXCEPT ![o] = @ + 1]
                             ELSE robots_reads
          /\ robot_parsers' = IF reads /\ parser # "raised"
                              THEN [robot_parsers EXCEPT ![o] = parser]
                              ELSE robot_parsers
          /\ disallowed' = [disallowed EXCEPT ![u] = dis]
          /\ page_status' = [page_status EXCEPT ![u] = status]
          /\ IF allowed
             THEN /\ last_request_time' = t
                  /\ now' = t + lat
                  /\ success_count' = SuccessAfterGet(status, success_count)
                  /\ failure_count' = FailureAfterGet(status, failure_count)
                  /\ html = HtmlOf(status)
                  /\ fetch_log' = Append(fetch_log,
                        [crawl |-> crawls, url |-> u, depth |-> d,
                         outcome |-> status, t |-> t, slept |-> slept,
                         gate |-> <<"can_fetch", "_rate_limit">>])
             ELSE /\ UNCHANGED <<last_request_time, now, success_count>>
                  /\ failure_count' = FailureAfterDenied(failure_count)
                  /\ html = "none"
                  /\ fetch_log' = Append(fetch_log,
                        [crawl |-> crawls, url |-> u, depth |-> d,
                         outcome |-> "denied", t |-> 0, slept |-> 0,
                         gate |-> <<"can_fetch">>])

Htmls == {"none", "empty", "body"}

\* ------------------------------------------------------------- control
Top == stack[Len(stack)]

\* a return that unwinds every call, as an exception nobody catches would
ReturnAborts ==
    /\ stack' = <<>>
    /\ phase' = "done"

\* the running call returns: its frame is popped; the top-level call ends
\* the crawl
Return ==
    /\ stack' = SubSeq(stack, 1, Len(stack) - 1)
    /\ phase' = IF Len(stack) = 1 THEN "done" ELSE phase

Goto(f) == /\ stack' = [stack EXCEPT ![Len(stack)] = f]
           /\ phase' = phase

\* the running call calls scrape(u, current_depth + 1, ...) from its loop
Recurse(u) ==
    /\ stack' = Append([stack EXCEPT ![Len(stack)].i = @ + 1],
                       Frame(u, Top.depth + 1))
    /\ phase' = phase

Running(k, pc) ==
    /\ phase = "running"
    /\ kind = k
    /\ Top.pc = pc

\* an append that does not look whether the URL is already listed
AppendAgain(s, x) == Append(s, x)

\* self.all_links.append(x) under "if x not in self.all_links"; the same
\* shape stands for assigning the key x of a dict
AppendNew(s, x) == IF x \in Range(s) THEN s ELSE Append(s, x)

\* an off-by-one page-count test
LimitReachedLate(n) == n > max_links

\* the page-count test of scrape: n pages against max_links
LimitReached(n) == n >= max_links

\* an off-by-one depth test
AtMaxDepthLate(d) == d > max_depth

\* the depth test of scrape: links of a page at depth d are not followed
AtMaxDepth(d) == d >= max_depth

\* the caller's scraper.scrape(url, max_depth=..., ...) on a fresh or reset
\* engine
Scrape ==
    /\ phase = "idle"
    /\ crawls < env.crawls
    /\ \E u \in env.seeds :
        /\ start_url' = u
        /\ stack' = <<Frame(u, 0)>>
    /\ phase' = "running"
    /\ crawls' = crawls + 1
    /\ stop_requested' = FALSE
    /\ saved' = 0
    /\ UNCHANGED <<config, engine, fetchvars, page_anchors, env, prev_visited,
                   progress_calls, output_file, parsing, window>>

\* the anchors BeautifulSoup finds in the page of u: decided by the web the
\* first time the page is parsed
AnchorsOf(u) == IF page_anchors[u] = Unparsed THEN env.anchors
                ELSE {page_anchors[u]}

\* --------------------------------------------------------- Scraper.scrape
\* scraper.py:309-320
ScraperAdmit ==
    /\ Running("Scraper", "enter")
    /\ IF \/ ~is_valid_url(Top.url)
          \/ Top.url \in visited_urls
          \/ LimitReached(Len(all_links))
       THEN Return /\ UNCHANGED visited_urls
       ELSE /\ visited_urls' = visited_urls \cup {Top.url}
            /\ Goto([Top EXCEPT !.pc = "fetch"])
    /\ UNCHANGED <<config, start_url, all_links, text_content, page_structures,
                   fetchvars, page_anchors, env, crawls, prev_visited,
                   progress_calls>>
    /\ HostIdle

\* scraper.py:322
ScraperFetch ==
    /\ Running("Scraper", "fetch")
    /\ \E html \in Htmls :
        /\ FetchPage(Top.url, Top.depth, html)
        /\ Goto([Top EXCEPT !.pc = "record", !.html = html])
    /\ UNCHANGED <<config, start_url, engine, page_anchors, env, crawls,
                   prev_visited, progress_calls>>
    /\ HostIdle

\* scraper.py:323-347
ScraperRecord ==
    /\ Running("Scraper", "record")
    /\ IF Top.html # "body"
       THEN Return /\ UNCHANGED <<text_content, all_links, page_anchors,
                                   progress_calls>>
       ELSE /\ text_content' = AppendNew(text_content, Top.url)
            /\ all_links' = AppendNew(all_links, Top.url)
            /\ IF Top.url \notin Range(all_links)
               THEN progress_callback(Len(all_links) + 1, Top.url, TRUE)
               ELSE UNCHANGED progress_calls
            /\ IF LimitReached(Len(all_links'))
               THEN Return /\ UNCHANGED page_anchors
               ELSE \E anchors \in AnchorsOf(Top.url) :
                    LET links == extract_links(Top.url, anchors,
                                               filter_same_domain)
                    IN /\ page_anchors' =
                             [page_anchors EXCEPT ![Top.url] = anchors]
                       /\ IF ~AtMaxDepth(Top.depth)
                          THEN Goto([Top EXCEPT !.pc = "loop",
                                         !.links = links, !.i = 1])
                          ELSE Return
    /\ UNCHANGED <<config, start_url, visited_urls, page_structures, fetchvars,
                   env, crawls, prev_visited>>
    /\ HostIdle

\* a loop that looks at an already visited link again instead of moving on
ScraperLoopStuck ==
    /\ Running("Scraper", "loop")
    /\ IF Top.i > Len(Top.links)
       THEN Return /\ UNCHANGED <<all_links, progress_calls>>
       ELSE LET link == Top.links[Top.i]
            IN IF link \in visited_urls
               THEN /\ Goto(Top)
                    /\ UNCHANGED <<all_links, progress_calls>>
               ELSE IF LimitReached(Len(all_links))
               THEN Return /\ UNCHANGED <<all_links, progress_calls>>
               ELSE /\ all_links' = AppendNew(all_links, link)
                    /\ IF link \notin Range(all_links)
                       THEN progress_callback(Len(all_links) + 1, link,
                                link \in Range(text_content))
                       ELSE UNCHANGED progress_calls
                    /\ Recurse(link)
    /\ UNCHANGED <<config, start_url, visited_urls, text_content,
                   page_structures, fetchvars, page_anchors, env, crawls,
                   prev_visited>>
    /\ HostIdle

\* scraper.py:350-371, one iteration of the loop
ScraperLoop ==
    /\ Running("Scraper", "loop")
    /\ IF Top.i > Len(Top.links)
       THEN Return /\ UNCHANGED <<all_links, progress_calls>>
       ELSE LET link == Top.links[Top.i]
            IN IF link \in visited_urls
               THEN /\ Goto([Top EXCEPT !.i = @ + 1])
                    /\ UNCHANGED <<all_links, progress_calls>>
               ELSE IF LimitReached(Len(all_links))
               THEN Return /\ UNCHANGED <<all_links, progress_calls>>
               ELSE /\ all_links' = AppendNew(all_links, link)
                    /\ IF link \notin Range(all_links)
                       THEN progress_callback(Len(all_links) + 1, link,
                                link \in Range(text_content))
                       ELSE UNCHANGED progress_calls
                    /\ Recurse(link)
    /\ UNCHANGED <<config, start_url, visited_urls, text_content,
                   page_structures, fetchvars, page_anchors, env, crawls,
                   prev_visited>>
    /\ HostIdle

\* ------------------------------------------------------ DocScraper.scrape
\* doc_scraper.py:356-367
DocAdmit ==
    /\ Running("DocScraper", "enter")
    /\ IF \/ LimitReached(Cardinality(visited_urls))
          \/ Top.url \in visited_urls
          \/ ~is_valid_url(Top.url)
       THEN Return
       ELSE Goto([Top EXCEPT !.pc = "fetch"])
    /\ UNCHANGED <<config, start_url, engine, fetchvars, page_anchors, env,
                   crawls, prev_visited, progress_calls>>
    /\ HostIdle

\* doc_scraper.py:370
DocFetch ==
    /\ Running("DocScraper", "fetch")
    /\ \E html \in Htmls :
        /\ FetchPage(Top.url, Top.depth, html)
        /\ Goto([Top EXCEPT !.pc = "single", !.html = html])
    /\ UNCHANGED <<config, start_url, engine, page_anchors, env, crawls,
                   prev_visited, progress_calls>>
    /\ HostIdle

\* doc_scraper.py:371-375 with scrape_single_page, doc_scraper.py:290-337
DocSinglePage ==
    /\ Running("DocScraper", "single")
    /\ IF Top.html # "body"
       THEN Return /\ UNCHANGED <<page_structures, fetchvars>>
       ELSE \E html \in Htmls :
            /\ FetchPage(Top.url, Top.depth, html)
            /\ page_structures' = IF html = "body"
                                  THEN AppendNew(page_structures, Top.url)
                                  ELSE page_structures
            /\ Goto([Top EXCEPT !.pc = "record"])
    /\ UNCHANGED <<config, start_url, visited_urls, all_links, text_content,
                   page_anchors, env, crawls, prev_visited, progress_calls>>
    /\ HostIdle

\* no sorting: the links as extract_links found them
SortedLinksAsFound(links, visited) == links

\* doc_scraper.py:394-406: documentation links first, then the links that
\* are not among them
SortedLinks(links, visited) ==
    LET doc_links == Filter(links, {l \in Urls : l \notin visited
                                                 /\ is_doc_site(l)})
    IN doc_links \o Filter(links, Urls \ Range(doc_links))

\* doc_scraper.py:377-406
DocRecord ==
    /\ Running("DocScraper", "record")
    /\ visited_urls' = visited_urls \cup {Top.url}
    /\ text_content' = AppendNew(text_content, Top.url)
    /\ IF AtMaxDepth(Top.depth)
       THEN Return /\ UNCHANGED page_anchors
       ELSE \E anchors \in AnchorsOf(Top.url) :
            LET links == extract_links(Top.url, anchors, filter_same_domain)
            IN /\ page_anchors' = [page_anchors EXCEPT ![Top.url] = anchors]
               /\ Goto([Top EXCEPT !.pc = "loop", !.i = 1,
                            !.links = SortedLinks(links, visited_urls')])
    /\ UNCHANGED <<config, start_url, all_links, page_structures, fetchvars,
                   env, crawls, prev_visited, progress_calls>>
    /\ HostIdle

\* doc_scraper.py:409-421, one iteration of the loop
DocLoop ==
    /\ Running("DocScraper", "loop")
    /\ IF Top.i > Len(Top.links)
       THEN Return /\ UNCHANGED progress_calls
       ELSE IF LimitReached(Cardinality(visited_urls))
       THEN Return /\ UNCHANGED progress_calls
       ELSE LET link == Top.links[Top.i]
            IN /\ progress_callback(Cardinality(visited_urls), link,
                                    link \in Range(text_content))
               /\ Recurse(link)
    /\ UNCHANGED <<config, start_url, engine, fetchvars, page_anchors, env,
                   crawls, prev_visited>>
    /\ HostIdle

\* ------------------------------------------------------------------ reset
\* a reset that leaves the robots cache as it is
ResetKeepsRobots ==
    /\ phase = "done"
    /\ visited_urls' = {}
    /\ all_links' = <<>>
    /\ text_content' = <<>>
    /\ success_count' = 0
    /\ failure_count' = 0
    /\ last_request_time' = 0
    /\ page_structures' = IF kind = "DocScraper" THEN <<>> ELSE page_structures
    /\ phase' = "idle"
    /\ prev_visited' = visited_urls
    /\ UNCHANGED <<fetch_log, config, start_url, stack, crawls, env, now,
                   page_status, page_anchors, robots_txt, disallowed,
                   progress_calls, robot_parsers, robots_reads>>
    /\ HostIdle

\* Scraper.reset (scraper.py:413-421) and DocScraper.reset
\* (doc_scraper.py:535-538), called between two crawls
Reset ==
    /\ phase = "done"
    /\ visited_urls' = {}
    /\ all_links' = <<>>
    /\ text_content' = <<>>
    /\ success_count' = 0
    /\ failure_count' = 0
    /\ robot_parsers' = [o \in Hosts |-> Absent]
    /\ last_request_time' = 0
    /\ page_structures' = IF kind = "DocScraper" THEN <<>> ELSE page_structures
    /\ phase' = "idle"
    /\ robots_reads' = [o \in Hosts |-> 0]
    /\ prev_visited' = visited_urls
    /\ UNCHANGED <<fetch_log, config, start_url, stack, crawls, env, now,
                   page_status, page_anchors, robots_txt, disallowed,
                   progress_calls>>
    /\ HostIdle

\* list(self.visited_urls): the elements of a set in an order the caller
\* cannot rely on
ListsOf(S) == {s \in AnchorLists(S, Cardinality(S)) : Len(s) = Cardinality(S)}

\* the URL list the top-level scrape call returns (scraper.py:371, the first
\* component; doc_scraper.py:421): the lists it may be
Returned == IF kind = "Scraper" THEN {all_links} ELSE ListsOf(visited_urls)

\* a step of a crawl
CrawlStep ==
    \/ Scrape
    \/ ScraperAdmit
    \/ ScraperFetch
    \/ ScraperRecord
    \/ ScraperLoop
    \/ DocAdmit
    \/ DocFetch
    \/ DocSinglePage
    \/ DocRecord
    \/ DocLoop

Next == CrawlStep \/ Reset

Spec == Init /\ [][Next]_vars

\* ------------------------------------------- the same web, robots on and off
\* a second engine, Scraper(..., respect_robots=False), is constructed for
\* the web the first one has crawled (scraper.py:42-67)
NewEngine ==
    /\ phase = "done"
    /\ respect_robots
    /\ respect_robots' = FALSE
    /\ visited_urls' = {}
    /\ all_links' = <<>>
    /\ text_content' = <<>>
    /\ page_structures' = <<>>
    /\ robot_parsers' = [o \in Hosts |-> Absent]
    /\ last_request_time' = 0
    /\ success_count' = 0
    /\ failure_count' = 0
    /\ robots_reads' = [o \in Hosts |-> 0]
    /\ phase' = "idle"
    /\ prev_visited' = visited_urls
    /\ UNCHANGED <<kind, max_links, rate_limit, max_depth, filter_same_domain,
                   start_url, stack, crawls, env, now, page_status,
                   page_anchors, robots_txt, disallowed, fetch_log,
                   progress_calls>>
    /\ HostIdle

\* a web of four pages that all answer 200, with a robots.txt per origin
EnvTwin == [outcomes |-> {"ok"}, robots |-> {"200"},
            anchors |-> AnchorLists(Urls, MaxOut), latencies |-> {0},
            seeds |-> {1}, crawls |-> 2]

InitTwin == InitWith(EnvTwin, {"Scraper", "DocScraper"}, {MaxLinksCfg + 2},
                     {1}, {TRUE}, {MaxDepthCfg}, {FALSE})

NextTwin == CrawlStep \/ NewEngine

SpecTwin == InitTwin /\ [][NextTwin]_vars

\* ---------------------------------------------------- robots.txt in detail
\* every robots.txt outcome, on a web whose pages answer 200 or an error
EnvPolite == [outcomes |-> {"ok", "http_error"}, robots |-> RobotsOutcomes,
              anchors |-> AnchorLists(CoreUrls, MaxOut), latencies |-> {0},
              seeds |-> {1}, crawls |-> 1]

InitPolite == InitWith(EnvPolite, {"Scraper", "DocScraper"}, 1..MaxLinksCfg,
                       {1}, BOOLEAN, 0..MaxDepthCfg, {FALSE})

SpecPolite == InitPolite /\ [][Next]_vars

\* ------------------------------------------------------- the rate limiter
\* GETs that take 0..MaxRate seconds, under every rate_limit of 0..MaxRate,
\* over two crawls of one engine with a reset between them; the seed links
\* to pages on its own host and on another one
EnvRate == [outcomes |-> {"ok", "http_error"}, robots |-> {"200"},
            anchors |-> AnchorLists({2, 3}, MaxOut),
            latencies |-> 0..MaxRate, seeds |-> {1}, crawls |-> 2]

InitRate ==
    \/ InitWith(EnvRate, {"Scraper"}, {3}, 0..MaxRate, {TRUE}, {1}, {FALSE})
    \/ InitWith(EnvRate, {"DocScraper"}, {1}, 0..MaxRate, {TRUE}, {1},
                {FALSE})

SpecRate == InitRate /\ [][Next]_vars

\* ------------------------------------------------------------ termination
\* every anchor list (cycles and self-links included) on a web whose pages
\* answer 200 or an error and whose robots.txt may refuse a page
EnvLive == [outcomes |-> {"ok", "http_error"}, robots |-> {"200"},
            anchors |-> AnchorLists(CoreUrls, MaxOut), latencies |-> {0},
            seeds |-> {1}, crawls |-> 1]

InitLive == InitWith(EnvLive, {"Scraper", "DocScraper"}, 1..MaxLinksCfg, {1},
                     BOOLEAN, 0..MaxDepthCfg, {FALSE})

\* the crawl is one sequential flow that is never suspended for good: a step
\* that can be taken is taken
SpecLive == InitLive /\ [][Next]_vars /\ WF_vars(Next)

\* -------------------------------------------------------- fault isolation
\* pages that answer 200 or an error, robots.txt files that may refuse a
\* page, and anchors that validators.url rejects among the valid ones
EnvIsolate == [outcomes |-> {"ok", "http_error"}, robots |-> {"200"},
               anchors |-> AnchorLists({BadUrl, 2, 3}, MaxOut),
               latencies |-> {0}, seeds |-> {1}, crawls |-> 1]

InitIsolate == InitWith(EnvIsolate, {"Scraper", "DocScraper"}, 1..MaxLinksCfg,
                        {1}, BOOLEAN, 1..MaxDepthCfg, {FALSE})

SpecIsolate == InitIsolate /\ [][Next]_vars

\* ------------------------------------------------------ same-domain crawls
\* scrape(..., filter_same_domain=True) from a seed on either host, on a web
\* whose pages link to both hosts
EnvSame == [outcomes |-> {"ok", "http_error"}, robots |-> {"200"},
            anchors |-> AnchorLists(CoreUrls, MaxOut), latencies |-> {0},
            seeds |-> {1, 3}, crawls |-> 1]

InitSame == InitWith(EnvSame, {"Scraper", "DocScraper"}, 1..MaxLinksCfg, {1},
                     {FALSE}, 0..MaxDepthCfg, {TRUE})

SpecSame == InitSame /\ [][Next]_vars

\* ------------------------------------------------------- the GUI's worker
\* ScraperGUI.stop_scraping (main.py:366-371): the Stop button, enabled while
\* the worker thread runs scrape and disabled by its first click
StopScraping ==
    /\ phase = "running"
    /\ ~stop_requested
    /\ stop_requested' = TRUE
    /\ UNCHANGED <<config, start_url, engine, fetchvars, page_anchors, env,
                   phase, stack, crawls, prev_visited, progress_calls,
                   output_file, saved, parsing, window>>

EnvGui == [outcomes |-> {"ok", "http_error"}, robots |-> {"200"},
           anchors |-> AnchorLists(CoreUrls, MaxOut), latencies |-> {0},
           seeds |-> {1}, crawls |-> 1]

\* ScraperGUI.start_scraping constructs a Scraper (main.py:353)
InitGui == InitWith(EnvGui, {"Scraper"}, 1..MaxLinksCfg, {1}, BOOLEAN,
                    0..MaxDepthCfg, {FALSE})

\* the worker thread runs scraper.scrape (main.py:386) while the main thread
\* may set the stop flag
NextGui ==
    \/ Scrape
    \/ ScraperAdmit
    \/ ScraperFetch
    \/ ScraperRecord
    \/ ScraperLoop
    \/ StopScraping

SpecGui == InitGui /\ [][NextGui]_vars

\* -------------------------------------------------------------- the report
\* what Scraper.save_text_content (scraper.py:388-408) and
\* DocScraper.save_text_content (doc_scraper.py:480-501) write: the banner
\* count, the four lines of the summary and the stored text of each page in
\* the order of the dict
RenderText ==
    [banner |-> IF kind = "Scraper" THEN Len(text_content)
                ELSE Cardinality(visited_urls),
     visited |-> Cardinality(visited_urls),
     success |-> success_count,
     failure |-> failure_count,
     extracted |-> Len(text_content),
     body |-> text_content]

\* a save that empties what it has written
SaveTextContentFlushes ==
    /\ phase = "done"
    /\ saved < MaxSaves
    /\ saved' = saved + 1
    /\ output_file' = IF kind = "DocScraper" /\ text_content = <<>>
                      THEN output_file
                      ELSE RenderText
    /\ text_content' = <<>>
    /\ UNCHANGED <<config, start_url, visited_urls, all_links,
                   page_structures, fetchvars, page_anchors, env, phase,
                   stack, crawls, prev_visited, progress_calls,
                   stop_requested, parsing, window>>

\* save_text_content, called once scrape has returned (cli.py:170,
\* run_doc_scraper.py:154, main.py:480); DocScraper writes nothing when there
\* is no content (doc_scraper.py:474-476)
SaveTextContent ==
    /\ phase = "done"
    /\ saved < MaxSaves
    /\ saved' = saved + 1
    /\ output_file' = IF kind = "DocScraper" /\ text_content = <<>>
                      THEN output_file
                      ELSE RenderText
    /\ UNCHANGED <<config, start_url, engine, fetchvars, page_anchors, env,
                   phase, stack, crawls, prev_visited, progress_calls,
                   stop_requested, parsing, window>>

EnvReport == [outcomes |-> {"ok", "http_error"}, robots |-> {"200"},
              anchors |-> AnchorLists(CoreUrls, MaxOut), latencies |-> {0},
              seeds |-> {1}, crawls |-> 2]

InitReport == InitWith(EnvReport, {"Scraper", "DocScraper"}, {MaxLinksCfg},
                       {1}, {FALSE}, {1}, {FALSE})

NextReport == Next \/ SaveTextContent

SpecReport == InitReport /\ [][NextReport]_vars

\* ================================================== the parsing functions
\* everything a crawl owns: an application of a parsing function and a step
\* of the window leave it alone
crawlvars == <<config, start_url, engine, fetchvars, page_anchors, env, phase,
               stack, crawls, prev_visited, progress_calls, output_file,
               saved>>

\* ------------------------------------------------------------ URL strings
\* a string is the sequence of its pieces: a scheme with its netloc, a path,
\* the marks "?" and "#", and words
Origins == {"http://a.example", "http://b.example", "https://a.example"}
SchemeOf(o) == IF o = "mailto:" THEN "mailto"
               ELSE IF o = "https://a.example" THEN "https"
               ELSE IF o \in Origins THEN "http"
               ELSE ""
NetlocOf(o) == IF o \in {"http://a.example", "https://a.example"}
               THEN "a.example"
               ELSE IF o = "http://b.example" THEN "b.example"
               ELSE ""

\* the index of the first piece c of s, or Len(s) + 1
RECURSIVE Find(_, _)
Find(s, c) ==
    IF s = <<>> THEN 1
    ELSE IF s[1] = c THEN 1
    ELSE 1 + Find(Tail(s), c)

Before(s, c) == SubSeq(s, 1, Find(s, c) - 1)
After(s, c) == SubSeq(s, Find(s, c) + 1, Len(s))

\* urllib.parse.urlsplit: the fragment is cut at the first "#", then the
\* query at the first "?"
urlparse(s) ==
    LET o == IF s # <<>> /\ SchemeOf(s[1]) # "" THEN s[1] ELSE ""
        rest == IF o = "" THEN s ELSE Tail(s)
        nofrag == Before(rest, "#")
    IN [origin |-> o, scheme |-> SchemeOf(o), netloc |-> NetlocOf(o),
        path |-> Before(nofrag, "?"), query |-> After(nofrag, "?"),
        fragment |-> After(rest, "#")]

\* urllib.parse.urlunsplit: an empty query and an empty fragment leave no
\* mark behind
urlunparse(p) ==
    (IF p.origin = "" THEN <<>> ELSE <<p.origin>>)
    \o p.path
    \o (IF p.query = <<>> THEN <<>> ELSE <<"?">> \o p.query)
    \o (IF p.fragment = <<>> THEN <<>> ELSE <<"#">> \o p.fragment)

\* urllib.parse.urljoin for hrefs whose path, if any, starts at the root: a
\* href of another scheme is returned as it is, one with a netloc is only
\* normalised, one without a path takes the path of the base and, if it has no
\* query, the query of the base
urljoin(base, href) ==
    LET b == urlparse(base)
        h == urlparse(href)
    IN IF href = <<>> THEN base
       ELSE IF h.scheme # "" /\ h.scheme # b.scheme THEN href
       ELSE IF h.netloc # "" THEN urlunparse(h)
       ELSE IF h.path = <<>>
            THEN urlunparse([b EXCEPT !.query = IF h.query = <<>> THEN b.query
                                                ELSE h.query,
                                      !.fragment = h.fragment])
       ELSE urlunparse([h EXCEPT !.origin = b.origin])

\* validators.url: an http or https URL with a host
validators_url(s) == urlparse(s).scheme \in {"http", "https"}

\* absolute_url.endswith('#')
endswith(s, c) == s # <<>> /\ s[Len(s)] = c

\* a rewriting that leaves the query string in place
re_sub_nothing(s) == s

\* re.sub(r'\?.*$', '', absolute_url): everything from the first "?" goes
re_sub_query(s) == Before(s, "?")

\* the loop of extract_links over the href of every a tag, in document order
RECURSIVE ExtractLinksLoop(_, _, _, _)
ExtractLinksLoop(url, hrefs, same_domain, links) ==
    IF hrefs = <<>> THEN links
    ELSE LET absolute_url == urljoin(url, hrefs[1])
             base_url == re_sub_query(absolute_url)
             rest == Tail(hrefs)
         IN IF same_domain
               /\ urlparse(absolute_url).netloc # urlparse(url).netloc
            THEN ExtractLinksLoop(url, rest, same_domain, links)
            ELSE IF validators_url(absolute_url)
                    /\ ~endswith(absolute_url, "#")
                    /\ base_url \notin Range(links)
            THEN ExtractLinksLoop(url, rest, same_domain,
                                  Append(links, base_url))
            ELSE ExtractLinksLoop(url, rest, same_domain, links)

\* the hrefs a page can carry: a path, a path with a query, a fragment of the
\* page itself, a bare "#", another host, another scheme, a URL ending in
\* "#", a fragment holding a "?", a query alone
Hrefs == {<<"/q">>, <<"/q", "?", "x">>, <<"#", "s">>, <<"#">>,
          <<"http://b.example", "/p">>, <<"mailto:", "x">>,
          <<"https://a.example", "/q", "#">>,
          <<"/p", "#", "s", "?", "x">>, <<"?", "y">>}
PageUrls == {<<"http://a.example", "/p">>,
             <<"http://a.example", "/p", "?", "x">>}

\* the lists of at most n elements of S
RECURSIVE ListsUpTo(_, _)
ListsUpTo(S, n) ==
    IF n = 0 THEN {<<>>}
    ELSE LET L == ListsUpTo(S, n - 1)
         IN L \cup {Append(l, x) : l \in {t \in L : Len(t) = n - 1}, x \in S}

ExtractLinksCalls ==
    {[fn |-> "extract_links", url |-> u, hrefs |-> h, filter_same_domain |-> f] :
        u \in PageUrls, h \in ListsUpTo(Hrefs, MaxOut), f \in BOOLEAN}

\* Scraper.extract_links(url, html_content, filter_same_domain) returns
ExtractLinks ==
    /\ call.fn = "extract_links"
    /\ ~ret.done
    /\ ret' = [done |-> TRUE,
               value |-> ExtractLinksLoop(call.url, call.hrefs,
                                          call.filter_same_domain, <<>>)]
    /\ UNCHANGED <<crawlvars, stop_requested, call, window>>

\* ------------------------------------------------- extract_text_content
\* a line of text is the sequence of its words; "." is a punctuation mark and
\* "lorem" a run of words as long as a paragraph
SectionWidth == 50
LoremWidth == 60
CharsOf(w) == IF w = "lorem" THEN LoremWidth ELSE Len(w)

RECURSIVE LineLen(_)
LineLen(line) ==
    IF line = <<>> THEN 0
    ELSE CharsOf(line[1]) + (IF Len(line) > 1 THEN 1 ELSE 0)
         + LineLen(Tail(line))

\* str.lower()
Lower(w) == IF w \in {"Hello", "HELLO"} THEN "hello" ELSE w

RECURSIVE Flatten(_)
Flatten(ls) == IF ls = <<>> THEN <<>> ELSE ls[1] \o Flatten(Tail(ls))

\* a potential section header: a short line without punctuation
\* (scraper.py:249)
IsHeader(line) ==
    /\ LineLen(line) < SectionWidth
    /\ "." \notin Range(line)
    /\ line # <<>>

\* f"\n## {current_section} ##\n"
SectionTitle(line) == <<"##">> \o line \o <<"##">>

\* what lines 251-255 and 264-267 add for a section that has lines
FlushSection(formatted, current_section, section_lines, spacing) ==
    IF section_lines = <<>> THEN formatted
    ELSE formatted
         \o (IF current_section = <<>> THEN <<>>
             ELSE <<SectionTitle(current_section)>>)
         \o section_lines
         \o (IF spacing THEN <<<<>>>> ELSE <<>>)

\* the loop over the lines of the page (scraper.py:247-267)
RECURSIVE SectionLoop(_, _, _, _)
SectionLoop(lines, formatted, current_section, section_lines) ==
    IF lines = <<>>
    THEN FlushSection(formatted, current_section, section_lines, FALSE)
    ELSE IF IsHeader(lines[1])
    THEN SectionLoop(Tail(lines),
                     FlushSection(formatted, current_section, section_lines,
                                  TRUE),
                     lines[1], <<>>)
    ELSE SectionLoop(Tail(lines), formatted, current_section,
                     Append(section_lines, lines[1]))

\* pattern.sub(f"**{keyword}**", highlighted_line) with
\* pattern = re.compile(re.escape(keyword), re.IGNORECASE)
RECURSIVE pattern_sub(_, _)
pattern_sub(keyword, line) ==
    IF line = <<>> THEN <<>>
    ELSE (IF Lower(line[1]) = Lower(keyword) THEN <<"**", keyword, "**">>
          ELSE <<line[1]>>)
         \o pattern_sub(keyword, Tail(line))

\* the loop over the keywords for one line (scraper.py:273-278): the test
\* looks at the line, the substitution works on what is highlighted so far
RECURSIVE HighlightLine(_, _, _)
HighlightLine(keywords, line, highlighted_line) ==
    IF keywords = <<>> THEN highlighted_line
    ELSE HighlightLine(Tail(keywords), line,
            IF Lower(keywords[1]) \in {Lower(w) : w \in Range(line)}
            THEN pattern_sub(keywords[1], highlighted_line)
            ELSE highlighted_line)

\* the lines Scraper.extract_text_content writes below the header of the page
extract_text_content(lines, keywords) ==
    LET formatted_lines == SectionLoop(lines, <<>>, <<>>, <<>>)
    IN IF keywords # <<>>
       THEN [i \in DOMAIN formatted_lines |->
                HighlightLine(keywords, formatted_lines[i], formatted_lines[i])]
       ELSE formatted_lines

\* the lines DocScraper.format_page_content writes for a page without table
\* of contents and code blocks: page_data['content'], whatever the keywords
\* scrape was called with
format_page_content(lines, keywords) == lines

\* the text lines of a page and the keywords of a crawl
TextLines == {<<"Hello", "world">>, <<"Hello", "world", ".">>,
              <<"hello", ".">>, <<"Intro">>, <<"HELLO", "lorem">>}
KeywordLists == {<<>>, <<"Hello">>, <<"world", "Hello">>}

TextCalls ==
    {[fn |-> f, lines |-> l, keywords |-> k] :
        f \in {"extract_text_content", "format_page_content"},
        l \in ListsUpTo(TextLines, MaxLines), k \in KeywordLists}

\* self.text_content[start_url] = self.extract_text_content(start_url,
\* html_content, keywords) (scraper.py:327)
ExtractTextContent ==
    /\ call.fn = "extract_text_content"
    /\ ~ret.done
    /\ ret' = [done |-> TRUE,
               value |-> extract_text_content(call.lines, call.keywords)]
    /\ UNCHANGED <<crawlvars, stop_requested, call, window>>

\* self.text_content[start_url] = self.format_page_content(page_data)
\* (doc_scraper.py:383-384)
FormatPageContent ==
    /\ call.fn = "format_page_content"
    /\ ~ret.done
    /\ ret' = [done |-> TRUE,
               value |-> format_page_content(call.lines, call.keywords)]
    /\ UNCHANGED <<crawlvars, stop_requested, call, window>>

\* ----------------------------------------------------- extract_headings
\* the names soup.find_all looks for (doc_scraper.py:100)
HeadingTags == <<"h1", "h2", "h3", "h4", "h5", "h6">>

\* int(tag.name[1])
LevelOf(name) == CHOOSE n \in DOMAIN HeadingTags : HeadingTags[n] = name

\* str.strip() of one text node: " " is white space
RECURSIVE lstrip(_)
lstrip(t) == IF t # <<>> /\ t[1] = " " THEN lstrip(Tail(t)) ELSE t
RECURSIVE rstrip(_)
rstrip(t) ==
    IF t # <<>> /\ t[Len(t)] = " " THEN rstrip(SubSeq(t, 1, Len(t) - 1))
    ELSE t
strip(t) == rstrip(lstrip(t))

\* tag.get_text(strip=True): the stripped text nodes of the element, the
\* empty ones left out, joined without a separator
RECURSIVE get_text(_)
get_text(nodes) ==
    IF nodes = <<>> THEN <<>> ELSE strip(nodes[1]) \o get_text(Tail(nodes))

\* a test that lets every heading through
NeverEmpty(text) == FALSE

\* if not text (doc_scraper.py:107)
IsEmptyText(text) == text = <<>>

\* the loop of extract_headings over the elements of the page in document
\* order
RECURSIVE HeadingsLoop(_, _)
HeadingsLoop(tags, headings) ==
    IF tags = <<>> THEN headings
    ELSE LET tag == tags[1]
             text == get_text(tag.nodes)
         IN IF tag.name \notin Range(HeadingTags) \/ IsEmptyText(text)
            THEN HeadingsLoop(Tail(tags), headings)
            ELSE HeadingsLoop(Tail(tags),
                    Append(headings, [level |-> LevelOf(tag.name),
                                      text |-> text, id |-> tag.id]))

\* the elements of a page: headings and paragraphs, with one or two text
\* nodes, with and without white space around and inside
TagTexts == {<<<<"Intro">>>>, <<<<" ", "Intro", " ">>>>, <<<<" ">>>>, <<>>,
             <<<<"Intro", " ">>, <<" ">>, <<"B">>>>}
Tags == {[name |-> n, nodes |-> t, id |-> i] :
            n \in {"h1", "h2", "h6", "p"}, t \in TagTexts, i \in {"", "top"}}

HeadingsCalls ==
    {[fn |-> "extract_headings", tags |-> t] : t \in ListsUpTo(Tags, MaxTags)}

\* headings = self.extract_headings(soup) (doc_scraper.py:313)
ExtractHeadings ==
    /\ call.fn = "extract_headings"
    /\ ~ret.done
    /\ ret' = [done |-> TRUE, value |-> HeadingsLoop(call.tags, <<>>)]
    /\ UNCHANGED <<crawlvars, stop_requested, call, window>>

\* ---------------------------------------------------------- is_doc_site
\* a netloc is the sequence of its labels, a path the sequence of its
\* segments and slashes
doc_domains == <<
    <<"docs", "python", "org">>, <<"readthedocs", "io">>,
    <<"docs", "djangoproject", "com">>, <<"flask", "palletsprojects", "com">>,
    <<"nodejs", "org">>, <<"developer", "mozilla", "org">>,
    <<"docs", "oracle", "com">>, <<"docs", "microsoft", "com">>,
    <<"docs", "aws", "amazon", "com">> >>

\* a list of patterns that stops after the first half
doc_patterns_cut == <<
    <<"/", "docs", "/">>, <<"/", "doc", "/">>, <<"/", "documentation", "/">>,
    <<"/", "api", "/">> >>

\* doc_scraper.py:79-82
doc_patterns == <<
    <<"/", "docs", "/">>, <<"/", "doc", "/">>, <<"/", "documentation", "/">>,
    <<"/", "api", "/">>, <<"/", "reference", "/">>, <<"/", "manual", "/">>,
    <<"/", "guide", "/">>, <<"/", "tutorial", "/">> >>

\* pattern in text
Contains(text, pattern) ==
    \E i \in 1..(Len(text) - Len(pattern) + 1) :
        SubSeq(text, i, i + Len(pattern) - 1) = pattern

\* for pattern in patterns: if pattern in text: return True
RECURSIVE AnyIn(_, _)
AnyIn(patterns, text) ==
    IF patterns = <<>> THEN FALSE
    ELSE IF Contains(text, patterns[1]) THEN TRUE
    ELSE AnyIn(Tail(patterns), text)

\* DocScraper.is_doc_site on a URL with the given netloc and path
is_doc_site_of(netloc, path) ==
    IF AnyIn(doc_domains, netloc) THEN TRUE
    ELSE IF AnyIn(doc_patterns, path) THEN TRUE
    ELSE FALSE

Netlocs == {<<"example", "com">>, <<"docs", "python", "org">>,
            <<"www", "python", "org">>, <<"requests", "readthedocs", "io">>,
            <<"github", "com">>}
Segments == {"docs", "doc", "documentation", "api", "reference", "manual",
             "guide", "tutorial", "en", "index.html"}

\* "/" in front of every segment
RECURSIVE Slashed(_)
Slashed(segs) ==
    IF segs = <<>> THEN <<>> ELSE <<"/", segs[1]>> \o Slashed(Tail(segs))

\* no path at all, or up to MaxSegs segments, with and without a closing "/"
Paths == {<<>>} \cup
         UNION {{Slashed(l), Slashed(l) \o <<"/">>} :
                    l \in ListsUpTo(Segments, MaxSegs)}

DocSiteCalls ==
    {[fn |-> "is_doc_site", netloc |-> n, path |-> q] :
        n \in Netlocs, q \in Paths}

\* DocScraper.is_doc_site(url) returns
IsDocSite ==
    /\ call.fn = "is_doc_site"
    /\ ~ret.done
    /\ ret' = [done |-> TRUE,
               value |-> is_doc_site_of(call.netloc, call.path)]
    /\ UNCHANGED <<crawlvars, stop_requested, call, window>>

\* -------------------------------------------- one function, one application
EnvParse == [outcomes |-> {}, robots |-> {}, anchors |-> {}, latencies |-> {},
             seeds |-> {}, crawls |-> 0]

ParseCalls ==
    ExtractLinksCalls \cup TextCalls \cup HeadingsCalls \cup DocSiteCalls

\* the class whose method fn is
ClassOf(fn) ==
    IF fn \in {"format_page_content", "extract_headings", "is_doc_site"}
    THEN "DocScraper"
    ELSE "Scraper"

\* the arguments are chosen, nothing has been computed
InitParse ==
    /\ InitEngine(EnvParse, {"Scraper", "DocScraper"}, {1}, {1}, {FALSE},
                  {0}, {FALSE})
    /\ call \in ParseCalls
    /\ kind = ClassOf(call.fn)
    /\ ret = NoRet
    /\ InitWindow

NextParse ==
    \/ ExtractLinks
    \/ ExtractTextContent
    \/ FormatPageContent
    \/ ExtractHeadings
    \/ IsDocSite

SpecParse == InitParse /\ [][NextParse]_vars

\* ======================================================= the GUI's threads
\* the main thread runs the handlers of the two buttons and process_queue,
\* one after the other; every scrape_worker is a thread of its own and may be
\* interrupted between two statements.  What the crawl itself does is the
\* business of the engine above: here scraper.scrape only takes time, reports
\* progress and returns.

\* self.scrape_thread.is_alive()
is_alive(t) == t.pc # "dead"

\* the worker thread i goes on at pc, having put the messages msgs
WorkerStep(i, pc, msgs) ==
    /\ threads' = [threads EXCEPT ![i].pc = pc]
    /\ queue' = queue \o msgs
    /\ UNCHANGED <<crawlvars, stop_requested, parsing, buttons>>

\* ScraperGUI.start_scraping (main.py:311-364): a click on the enabled Scrape
\* button with a valid URL in the entry
start_scraping ==
    /\ buttons.scrape = "normal"
    /\ Len(threads) < MaxThreads
    /\ buttons' = [scrape |-> "disabled", stop |-> "normal"]
    /\ stop_requested' = FALSE
    /\ threads' = Append(threads, [pc |-> "scrape", progress |-> 0])
    /\ UNCHANGED <<crawlvars, parsing, queue>>

\* ScraperGUI.stop_scraping (main.py:366-371): a click on the enabled Stop
\* button
stop_scraping ==
    /\ buttons.stop = "normal"
    /\ threads # <<>>
    /\ is_alive(threads[Len(threads)])
    /\ stop_requested' = TRUE
    /\ buttons' = [buttons EXCEPT !.stop = "disabled"]
    /\ UNCHANGED <<crawlvars, parsing, queue, threads>>

\* ScraperGUI.update_progress (main.py:306-309), called by the engine in the
\* worker thread while scraper.scrape runs
update_progress ==
    \E i \in DOMAIN threads :
        /\ threads[i].pc = "scrape"
        /\ threads[i].progress < MaxProgress
        /\ threads' = [threads EXCEPT ![i].progress = @ + 1]
        /\ queue' = Append(queue, "progress")
        /\ UNCHANGED <<crawlvars, stop_requested, parsing, buttons>>

\* scraper.scrape returns to scrape_worker (main.py:386-392), or raises
scrape_returns ==
    \E i \in DOMAIN threads :
        /\ threads[i].pc = "scrape"
        /\ \E pc \in {"returned", "raised"} : WorkerStep(i, pc, <<>>)

\* main.py:394-395 and 399-445: the worker reads the stop flag and puts
\* either the notice that the crawl was stopped or its results
scrape_worker_reports ==
    \E i \in DOMAIN threads :
        /\ threads[i].pc = "returned"
        /\ IF stop_requested
           THEN WorkerStep(i, "stopped", <<"status">>)
           ELSE WorkerStep(i, "finally", <<"links", "stats", "status">>)

\* main.py:396-397: the stopped worker asks for the Scrape button and returns
scrape_worker_stopped ==
    \E i \in DOMAIN threads :
        /\ threads[i].pc = "stopped"
        /\ WorkerStep(i, "finally", <<"enable_scrape">>)

\* main.py:447-449: the exception handler
scrape_worker_except ==
    \E i \in DOMAIN threads :
        /\ threads[i].pc = "raised"
        /\ WorkerStep(i, "finally", <<"status">>)

\* main.py:451-453: the finally clause, the last statement of the thread
scrape_worker_finally ==
    \E i \in DOMAIN threads :
        /\ threads[i].pc = "finally"
        /\ WorkerStep(i, "dead", <<"enable_scrape">>)

\* ScraperGUI.process_queue (main.py:487-531): the main thread takes every
\* message there is; "enable_scrape" enables the Scrape button and disables
\* the Stop button, the other messages fill the text fields
process_queue ==
    /\ queue # <<>>
    /\ queue' = <<>>
    /\ buttons' = IF "enable_scrape" \in Range(queue)
                  THEN [scrape |-> "normal", stop |-> "disabled"]
                  ELSE buttons
    /\ UNCHANGED <<crawlvars, stop_requested, parsing, threads>>

InitThreads ==
    /\ InitEngine(EnvParse, {"Scraper"}, {1}, {1}, {FALSE}, {0}, {FALSE})
    /\ call = NoCall
    /\ ret = NoRet
    /\ InitWindow

NextThreads ==
    \/ start_scraping
    \/ stop_scraping
    \/ update_progress
    \/ scrape_returns
    \/ scrape_worker_reports
    \/ scrape_worker_stopped
    \/ scrape_worker_except
    \/ scrape_worker_finally
    \/ process_queue

SpecThreads == InitThreads /\ [][NextThreads]_vars

\* ================================================================ claims
\* the fetch_page calls since the engine was constructed or reset: those of
\* the running (or finished) crawl
IsCurrent(e) == e.crawl = crawls /\ phase # "idle"
CrawlLog == SelectSeq(fetch_log, IsCurrent)
FetchesOf(u) == Cardinality({i \in DOMAIN CrawlLog : CrawlLog[i].url = u})
IsGet(e) == e.outcome # "denied"

\* C1: in every state of a crawl on a fresh or reset engine with
\* max_links >= 1, visited_urls holds at most max_links URLs.
C1_VisitedWithinLimit ==
    max_links >= 1 => Cardinality(visited_urls) <= max_links

C1_Witness ==
    /\ phase = "done"
    /\ max_links >= 2
    /\ Cardinality(visited_urls) = max_links

\* C2: within one crawl fetch_page is invoked at most once for any URL.
C2_FetchedAtMostOnce == \A u \in Urls : FetchesOf(u) <= 1

\* C3: every fetch is issued at a depth between 0 and max_depth, the seed at
\* depth 0 and each recursion one deeper; no call is made below a page that
\* is at depth max_depth.
C3_DepthWithinLimit ==
    /\ \A i \in DOMAIN fetch_log :
          fetch_log[i].depth >= 0 /\ fetch_log[i].depth <= max_depth
    /\ \A i \in DOMAIN stack :
          stack[i].depth = i - 1 /\ stack[i].depth <= max_depth

C3_Witness ==
    /\ max_depth >= 2
    /\ \E i \in DOMAIN fetch_log : fetch_log[i].depth = max_depth
    /\ \E i \in DOMAIN stack : stack[i].depth = max_depth

\* C5: every crawl terminates: the top-level scrape call eventually returns,
\* whatever the link graph (cycles included) and the fetch and robots
\* outcomes.
C5_CrawlTerminates == (phase = "running") ~> (phase = "done")

\* a crawl over a cycle of two pages has returned
C5_Witness ==
    /\ phase = "done"
    /\ \E u, v \in visited_urls :
          /\ u # v
          /\ v \in Range(page_anchors[u])
          /\ u \in Range(page_anchors[v])

\* C4: on the same web, with the same seed and configuration, the visited set
\* at the end of the crawl with robots-compliance disabled is at least as
\* large as at the end of the crawl with it enabled.
C4_RobotsOffVisitsNoLess ==
    (phase = "done" /\ crawls = 2 /\ ~respect_robots)
        => Cardinality(visited_urls) >= Cardinality(prev_visited)

\* the robots policy the engine holds for u refuses it
Disallows(u) ==
    LET parser == robot_parsers[Host(u)]
    IN /\ respect_robots
       /\ \/ parser \in {"disallow_all", "unread"}
          \/ parser = "parsed" /\ disallowed[u] = "yes"

FailedFetches ==
    Cardinality({i \in DOMAIN CrawlLog :
                    CrawlLog[i].outcome \notin {"ok", "empty"}})

\* C6: with robots-compliance on, a URL the robots policy of its origin
\* disallows gets no GET and no page record, none of its links is recursed
\* into, and each attempt on it is counted as a failed fetch.
C6_DeniedIsSkipped ==
    /\ \A u \in Urls : (Disallows(u) /\ FetchesOf(u) > 0) =>
          /\ \A i \in DOMAIN CrawlLog :
                CrawlLog[i].url = u => ~IsGet(CrawlLog[i])
          /\ page_status[u] = Unknown
          /\ u \notin Range(text_content)
          /\ u \notin Range(page_structures)
          /\ page_anchors[u] = Unparsed
          /\ \A k \in DOMAIN stack :
                stack[k].url = u => k = Len(stack) /\ stack[k].pc # "loop"
    /\ failure_count = FailedFetches

\* a linked page was refused by robots.txt and the crawl went on to record
\* another page
C6_Witness ==
    /\ phase = "done"
    /\ \E u \in Urls \ {start_url} :
          /\ Disallows(u)
          /\ FetchesOf(u) > 0
          /\ \E i, j \in DOMAIN CrawlLog :
                /\ i < j
                /\ CrawlLog[i].url = u
                /\ CrawlLog[j].outcome = "ok"
    /\ failure_count >= 1

\* C7: with robots-compliance on, when retrieving or parsing robots.txt
\* fails (transport error or HTTP error status) can_fetch is true for every
\* URL of that origin; with robots-compliance off can_fetch is always true.
C7_RobotsFailOpen ==
    \A i \in DOMAIN fetch_log :
        LET u == fetch_log[i].url
        IN (~respect_robots \/ robots_txt[Host(u)] # "200")
               => IsGet(fetch_log[i])

\* C8: during one crawl the robots.txt of an origin is retrieved at most
\* once; later permission checks are answered from the cache.
C8_RobotsReadOnce == \A o \in Hosts : robots_reads[o] <= 1

Gets == SelectSeq(fetch_log, IsGet)

\* C9 as claimed: any two consecutive GETs of the engine are at least
\* rate_limit seconds apart, and the first GET after construction or reset
\* is not delayed.
C9_EveryGapAtLeastRateLimit ==
    /\ \A i \in 1..(Len(Gets) - 1) : Gets[i + 1].t - Gets[i].t >= rate_limit
    /\ \A i \in DOMAIN Gets :
          (i = 1 \/ Gets[i - 1].crawl # Gets[i].crawl) => Gets[i].slept = 0

\* C9, amended: two consecutive GETs with no reset between them, whatever
\* their domains, are at least rate_limit seconds apart, and the first GET
\* after construction or reset is not delayed.
C9_GapWithinCrawl ==
    /\ \A i \in 1..(Len(Gets) - 1) :
          Gets[i].crawl = Gets[i + 1].crawl
              => Gets[i + 1].t - Gets[i].t >= rate_limit
    /\ \A i \in DOMAIN Gets :
          (i = 1 \/ Gets[i - 1].crawl # Gets[i].crawl) => Gets[i].slept = 0

\* the limiter slept between GETs to two different hosts, and a GET after a
\* reset went out without delay
C9_Witness ==
    /\ rate_limit >= 1
    /\ \E i \in 1..(Len(Gets) - 1) :
          /\ Gets[i].crawl = Gets[i + 1].crawl
          /\ Host(Gets[i].url) # Host(Gets[i + 1].url)
          /\ Gets[i + 1].slept > 0
    /\ \E i \in DOMAIN Gets : Gets[i].crawl = 2 /\ Gets[i].slept = 0

IsError(e) == e.outcome \in {"http_error", "transport_error"}

PageCount == IF kind = "Scraper" THEN Len(all_links)
             ELSE Cardinality(visited_urls)

\* the call of frame f has come back from fetch_page without a page
GaveUp(f) == f.pc \in {"record", "single"} /\ f.html # "body"

\* the links extract_links returned for a page whose links were followed
Expanded(u) ==
    /\ page_anchors[u] # Unparsed
    /\ \E i \in DOMAIN CrawlLog :
          /\ CrawlLog[i].url = u
          /\ CrawlLog[i].outcome = "ok"
          /\ CrawlLog[i].depth < max_depth
LinksOf(u) == extract_links(u, page_anchors[u], filter_same_domain)

\* C11: a fetch failure, a robots denial or an invalid URL on one discovered
\* link never ends the crawl: the call on that link returns to its parent,
\* whose loop goes on with the remaining links in order (an invalid anchor
\* is dropped and never called) for as long as the page limit is not
\* reached; a crawl that ends below the limit has attempted every link of
\* every page it expanded.
C11_FaultIsolated ==
    /\ [][(phase = "running" /\ Len(stack) >= 2 /\ GaveUp(Top)
             /\ stack' # stack)
          => /\ phase' = "running"
             /\ stack' = SubSeq(stack, 1, Len(stack) - 1)
             /\ LET parent == stack'[Len(stack')]
                IN /\ parent.pc = "loop"
                   /\ parent.i >= 2
                   /\ parent.links[parent.i - 1] = Top.url]_vars
    /\ [][(phase = "running" /\ Top.pc = "loop" /\ Top.i <= Len(Top.links)
             /\ ~LimitReached(PageCount) /\ stack' # stack)
          => LET link == Top.links[Top.i]
             IN \/ /\ kind = "Scraper"
                   /\ link \in visited_urls
                   /\ stack' = [stack EXCEPT ![Len(stack)].i = @ + 1]
                \/ /\ stack' = Append([stack EXCEPT ![Len(stack)].i = @ + 1],
                                       Frame(link, Top.depth + 1))
                   /\ phase' = "running"]_vars
    /\ [](/\ \A k \in DOMAIN stack : k >= 2 => is_valid_url(stack[k].url)
          /\ (phase = "done" /\ ~LimitReached(PageCount))
                => \A u \in Urls : Expanded(u)
                      => \A l \in Range(LinksOf(u)) : FetchesOf(l) > 0)

\* a link of an expanded page failed or was refused and a later link was
\* fetched; an expanded page carried an invalid anchor
C11_Witness ==
    /\ phase = "done"
    /\ \E i, j \in DOMAIN CrawlLog :
          /\ i < j
          /\ CrawlLog[i].depth >= 1
          /\ CrawlLog[i].outcome \in {"http_error", "denied"}
          /\ CrawlLog[j].depth = CrawlLog[i].depth
          /\ CrawlLog[j].outcome = "ok"
    /\ \E u \in Urls : Expanded(u) /\ BadUrl \in Range(page_anchors[u])

\* C12: with filter_same_domain set, every URL a crawl calls scrape on and
\* every URL it fetches has the host of the seed URL, whatever the pages
\* link to.
C12_SameHostOnly ==
    filter_same_domain =>
        /\ \A i \in DOMAIN fetch_log :
              Host(fetch_log[i].url) = Host(start_url)
        /\ \A k \in DOMAIN stack : Host(stack[k].url) = Host(start_url)
        /\ \A u \in visited_urls : Host(u) = Host(start_url)

\* an expanded page linked to another host and to its own; the link to its
\* own host was fetched, the other one never
C12_Witness ==
    /\ filter_same_domain
    /\ phase = "done"
    /\ \E u \in Urls :
          /\ Expanded(u)
          /\ \E l, m \in Range(page_anchors[u]) :
                /\ Host(l) # Host(start_url)
                /\ FetchesOf(l) = 0
                /\ m # start_url
                /\ Host(m) = Host(start_url)
                /\ FetchesOf(m) > 0

\* the crawl has visited u: it is in visited_urls and fetch_page was called
\* on it
Visited(u) == u \in visited_urls /\ FetchesOf(u) > 0

\* C13 as claimed: every URL in the list Scraper.scrape returns was visited
\* during the crawl; the list holds no URL that was only discovered as a link.
C13_ReturnedWereVisited ==
    (phase = "done" /\ kind = "Scraper")
        => \A r \in Returned : \A i \in DOMAIN r : Visited(r[i])

\* C13, amended: every URL in the list Scraper.scrape returns was visited
\* during the crawl, except that the last entry of a list that has reached
\* max_links entries may be a link that was only discovered.
C13_ReturnedVisitedButLast ==
    (phase = "done" /\ kind = "Scraper")
        => \A r \in Returned : \A i \in DOMAIN r :
              \/ Visited(r[i])
              \/ /\ i = Len(r)
                 /\ i = max_links
                 /\ \E u \in Urls : Expanded(u) /\ r[i] \in Range(LinksOf(u))

\* a returned list of max_links entries, the last of them never visited, the
\* others visited
C13_Witness ==
    /\ phase = "done"
    /\ kind = "Scraper"
    /\ Len(all_links) = max_links
    /\ max_links >= 2
    /\ ~Visited(all_links[max_links])
    /\ \A i \in 1..(max_links - 1) : Visited(all_links[i])

NoDuplicates(r) == \A i, j \in DOMAIN r : r[i] = r[j] => i = j

\* C14: the URL list a scrape call returns never holds the same URL twice,
\* at any point of the recursion.
C14_ReturnedHasNoDuplicates == \A r \in Returned : NoDuplicates(r)

\* a link was listed when it was discovered and recorded afterwards, and is
\* in the returned list once
C14_Witness ==
    /\ phase = "done"
    /\ kind = "Scraper"
    /\ \E i \in DOMAIN all_links :
          /\ i >= 2
          /\ all_links[i] \in Range(text_content)
          /\ \E k \in DOMAIN progress_calls :
                /\ progress_calls[k].url = all_links[i]
                /\ ~progress_calls[k].recorded

\* the GETs of the seed in the crawl
SeedGets == {i \in DOMAIN CrawlLog : CrawlLog[i].url = start_url
                                       /\ IsGet(CrawlLog[i])}

\* one page record (that of the seed), one visited URL, no fetch of anything
\* but the seed; the seed's page is not even parsed for links
OnlyTheSeed ==
    /\ text_content = <<start_url>>
    /\ Range(page_structures) \subseteq {start_url}
    /\ visited_urls = {start_url}
    /\ \A i \in DOMAIN CrawlLog :
          CrawlLog[i].url = start_url /\ CrawlLog[i].depth = 0
    /\ \A u \in Urls : page_anchors[u] = Unparsed

Fresh ==
    /\ visited_urls = {}
    /\ all_links = <<>>
    /\ text_content = <<>>
    /\ page_structures = <<>>
    /\ robot_parsers = [o \in Hosts |-> Absent]
    /\ success_count = 0
    /\ failure_count = 0
    /\ last_request_time = 0

\* what the c-th crawl did: the URL, depth and outcome of each fetch_page
\* call, in order
OfCrawl1(e) == e.crawl = 1
OfCrawl2(e) == e.crawl = 2
SameCalls(s, t) ==
    /\ Len(s) = Len(t)
    /\ \A i \in DOMAIN s : /\ s[i].url = t[i].url
                            /\ s[i].depth = t[i].depth
                            /\ s[i].outcome = t[i].outcome

\* C16: after any history of crawls and failures reset() leaves the engine in
\* the crawl state of a freshly constructed one (visited set, link list,
\* text_content, page_structures and robots cache empty, both counters 0,
\* rate-limiter clock 0) and does not change max_links, rate_limit or
\* respect_robots; the crawl after it makes, on the same web, the fetches
\* that the crawl of the new engine made.
C16_ResetIsFresh ==
    /\ [](phase = "idle" => Fresh)
    /\ [][(phase = "done" /\ phase' = "idle")
            => /\ Fresh'
               /\ max_links' = max_links
               /\ rate_limit' = rate_limit
               /\ respect_robots' = respect_robots]_vars
    /\ []((phase = "done" /\ crawls = 2)
            => /\ SameCalls(SelectSeq(fetch_log, OfCrawl1),
                            SelectSeq(fetch_log, OfCrawl2))
               /\ visited_urls = prev_visited)

\* a crawl with a failed fetch and a cached robots.txt was reset, and the
\* crawl after the reset has recorded a page and met the failure again
C16_Witness ==
    /\ phase = "done"
    /\ crawls = 2
    /\ Len(text_content) >= 1
    /\ failure_count >= 1
    /\ \E i \in DOMAIN fetch_log :
          /\ fetch_log[i].crawl = 1
          /\ fetch_log[i].outcome \in {"http_error", "denied"}
    /\ \E o \in Hosts : robot_parsers[o] # Absent

\* C17: a crawl started with max_links < 1 is rejected at its start with a
\* failure the caller sees, before any fetch: the scrape call does not come
\* back with an ordinary result, and nothing was fetched.
C17_MisconfiguredRejected ==
    (max_links < 1 /\ is_valid_url(start_url)) =>
        /\ phase # "done"
        /\ CrawlLog = <<>>

\* C18: once the host application has requested cancellation of a running
\* crawl, the next admission check of the engine sees the flag: it admits
\* nothing and the call returns, so no fetch follows and the crawl ends
\* with the pages already recorded.
C18_CancelObserved ==
    [][(stop_requested /\ phase = "running" /\ Top.pc = "enter")
          => /\ stack' = SubSeq(stack, 1, Len(stack) - 1)
             /\ Len(fetch_log') = Len(fetch_log)
             /\ text_content' = text_content]_vars

\* the progress_callback calls of the crawl
Calls == SelectSeq(progress_calls, IsCurrent)
CallsAbout(u) == Cardinality({k \in DOMAIN Calls : Calls[k].url = u})

\* C19: the progress callback is invoked exactly once for each page that is
\* recorded, after the page has been recorded and added to the visited set,
\* with the arguments (number of visited URLs, max_links).
C19_CallbackOncePerRecord ==
    /\ \A k \in DOMAIN Calls :
          /\ Calls[k].recorded
          /\ Calls[k].n = Calls[k].visited
          /\ Calls[k].max = max_links
    /\ phase = "done" => \A u \in Range(text_content) : CallsAbout(u) = 1

\* C20: writing the text report twice with no step of the engine in between
\* produces the same output, and writing it leaves the engine state
\* (visited set, link list, page records, counters, robots cache) as it was.
C20_RenderIdempotent ==
    [][saved' > saved
          => /\ saved >= 1 => output_file' = output_file
             /\ visited_urls' = visited_urls
             /\ all_links' = all_links
             /\ text_content' = text_content
             /\ page_structures' = page_structures
             /\ success_count' = success_count
             /\ failure_count' = failure_count
             /\ robot_parsers' = robot_parsers
             /\ last_request_time' = last_request_time]_vars

\* the report of a crawl with recorded pages and a failed fetch was written
\* twice in a row
C20_Witness ==
    /\ saved = 2
    /\ Len(output_file.body) >= 2
    /\ output_file.failure >= 1
    /\ output_file = RenderText

\* the result of the application of the parsing function fn
Returns(fn) == call.fn = fn /\ ret.done

\* an absolute URL: a scheme and a host in front
IsAbsolute(s) == s # <<>> /\ s[1] \in Origins

\* where the anchors of the page first give the link l, query aside
FirstAnchor(l) ==
    LET at == {a \in DOMAIN call.hrefs :
                  Before(urljoin(call.url, call.hrefs[a]), "?") = l}
    IN IF at = {} THEN 0 ELSE CHOOSE a \in at : \A b \in at : a <= b

\* C21: the list extract_links returns holds absolute URLs without a query
\* string, none of them twice, in the order in which the anchors of the page
\* first give them.
C21_LinksAbsoluteStrippedOrdered ==
    Returns("extract_links") =>
        LET links == ret.value
        IN /\ \A i \in DOMAIN links :
                /\ IsAbsolute(links[i])
                /\ "?" \notin Range(links[i])
                /\ FirstAnchor(links[i]) >= 1
           /\ NoDuplicates(links)
           /\ \A i, j \in DOMAIN links :
                i < j => FirstAnchor(links[i]) < FirstAnchor(links[j])

\* two anchors that differ in their query only, after another link: two
\* links are returned
C21_Witness ==
    /\ Returns("extract_links")
    /\ call.hrefs = <<<<"http://b.example", "/p">>, <<"/q", "?", "x">>,
                      <<"/q">>>>
       \/ call.hrefs = <<<<"/q", "?", "x">>, <<"/q">>>>
    /\ Len(ret.value) = Len(call.hrefs) - 1

\* the link l is the page u followed by a fragment and nothing else
SamePageAnchor(u, l) == "#" \in Range(l) /\ Before(l, "#") = u

\* C22: no link extract_links returns for the page at u is u followed only
\* by a fragment.
C22_SamePageAnchorsDropped ==
    Returns("extract_links") =>
        \A i \in DOMAIN ret.value : ~SamePageAnchor(call.url, ret.value[i])

\* the word w is in the body, between two markers if marked is set
InBody(body, w, marked) ==
    \E i \in DOMAIN body :
        /\ Lower(body[i]) = Lower(w)
        /\ marked => /\ i > 1 /\ body[i - 1] = "**"
                     /\ i < Len(body) /\ body[i + 1] = "**"
        /\ ~marked => body[i] = w

\* C23: with keywords, the stored body of a page holds every occurrence of a
\* keyword (whatever its case) between two markers and every other word of
\* the page as it was.
C23_KeywordsHighlighted ==
    (Returns("extract_text_content") \/ Returns("format_page_content"))
    /\ call.keywords # <<>>
    => \A w \in Range(Flatten(call.lines)) :
          InBody(Flatten(ret.value), w,
                 Lower(w) \in {Lower(k) : k \in Range(call.keywords)})

\* the elements of the page that are headings with some text other than
\* white space, and the k-th of them in document order
TextOf(tag) == SelectSeq(Flatten(tag.nodes), LAMBDA c : c # " ")
Headed ==
    {e \in DOMAIN call.tags :
        /\ call.tags[e].name \in {"h1", "h2", "h3", "h4", "h5", "h6"}
        /\ TextOf(call.tags[e]) # <<>>}
HeadedAt(k) == CHOOSE e \in Headed : Cardinality({x \in Headed : x <= e}) = k

KnownDomains ==
    {<<"docs", "python", "org">>, <<"readthedocs", "io">>,
     <<"docs", "djangoproject", "com">>, <<"flask", "palletsprojects", "com">>,
     <<"nodejs", "org">>, <<"developer", "mozilla", "org">>,
     <<"docs", "oracle", "com">>, <<"docs", "microsoft", "com">>,
     <<"docs", "aws", "amazon", "com">>}
KnownSegments == {"docs", "doc", "documentation", "api", "reference",
                  "manual", "guide", "tutorial"}

\* C25: is_doc_site is true exactly when the host contains a known
\* documentation domain or the path contains one of the documentation
\* segments between two slashes.
C25_DocSiteExactly ==
    Returns("is_doc_site") =>
        (ret.value <=>
            \/ \E d \in KnownDomains : Contains(call.netloc, d)
            \/ \E i \in 1..(Len(call.path) - 2) :
                /\ call.path[i] = "/"
                /\ call.path[i + 1] \in KnownSegments
                /\ call.path[i + 2] = "/")

\* https://example.com/docs/api/ is a documentation site
C25_Witness ==
    /\ Returns("is_doc_site")
    /\ call.netloc = <<"example", "com">>
    /\ call.path = <<"/", "docs", "/", "api", "/">>
    /\ ret.value

\* C26: every fetch_page call of an admitted URL waits for the rate limit
\* before it asks robots.txt, the calls robots.txt denies included.
C26_ThrottleBeforeRobots ==
    \A i \in DOMAIN fetch_log :
        fetch_log[i].gate = <<"_rate_limit", "can_fetch">>

\* the place of the link l in the list r
PlaceIn(r, l) == CHOOSE i \in DOMAIN r : r[i] = l

\* the list seq holds the links of found, each once: those of first in the
\* order of found, then the others in the order of found
FirstThenRest(seq, found, first) ==
    /\ Len(seq) = Len(found)
    /\ Range(seq) = Range(found)
    /\ NoDuplicates(seq)
    /\ \A i, j \in DOMAIN seq :
        i < j => /\ seq[j] \in first => seq[i] \in first
                 /\ (seq[i] \in first <=> seq[j] \in first)
                        => PlaceIn(found, seq[i]) < PlaceIn(found, seq[j])

\* DocScraper.scrape goes from recording a page to the loop over its links
DocExpands ==
    /\ Running("DocScraper", "record")
    /\ Len(stack') = Len(stack)
    /\ stack'[Len(stack)].pc = "loop"

\* C27: when DocScraper.scrape expands a page, the list it loops over holds
\* every extracted link exactly once, the documentation links not visited so
\* far first and then the others, both in discovery order, and each call it
\* makes from the loop is for the next link of that list.
C27_DocLinksFirst ==
    /\ [][DocExpands =>
            LET found == extract_links(Top.url, page_anchors'[Top.url],
                                       filter_same_domain)
            IN FirstThenRest(stack'[Len(stack)].links, found,
                             {l \in Range(found) :
                                 l \notin visited_urls' /\ is_doc_site(l)})]_vars
    /\ [](kind = "DocScraper" =>
            \A k \in 1..(Len(stack) - 1) :
                /\ stack[k].pc = "loop"
                /\ stack[k].i >= 2
                /\ stack[k + 1].url = stack[k].links[stack[k].i - 1])

\* a page lists the documentation page 2 after page 3: scrape has called
\* itself for 2 first and is now in the call for 3
C27_Witness ==
    /\ kind = "DocScraper"
    /\ Len(stack) = 2
    /\ page_anchors[stack[1].url] = <<3, 2>>
    /\ stack[1].links = <<2, 3>>
    /\ stack[1].i = 3
    /\ stack[2].url = 3

\* the worker threads that are inside scraper.scrape
Crawling == {i \in DOMAIN threads : threads[i].pc = "scrape"}

\* C28: at most one worker thread of the GUI is running a crawl, and while
\* one is the Scrape button is disabled.
C28_OneCrawlAtATime ==
    /\ Cardinality(Crawling) <= 1
    /\ Crawling # {} => buttons.scrape = "disabled"

\* C29: when a crawl has ended, success_count is the number of page records
\* in text_content.
C29_SuccessesAreRecords ==
    phase = "done" => success_count = Len(text_content)

\* the URLs a chain of at most d links leads to from the seed, over the links
\* extract_links returns for the pages parsed so far
RECURSIVE Within(_)
Within(d) ==
    IF d = 0 THEN {start_url}
    ELSE LET near == Within(d - 1)
         IN near \cup UNION {Range(LinksOf(u)) : u \in near \cap Urls}

\* C30: a crawl in which every fetch succeeded, robots.txt denied nothing
\* and the page limit was not reached has visited every URL that at most
\* max_depth links separate from the seed.
C30_ReachableVisited ==
    (/\ phase = "done"
     /\ \A i \in DOMAIN CrawlLog : CrawlLog[i].outcome = "ok"
     /\ ~LimitReached(PageCount))
        => Within(max_depth) \subseteq visited_urls

====
